---------------------------- MODULE Spec2Model ----------------------------
(***************************************************************************)
(* Merchant Dashboard: the transaction filter service, the aggregation     *)
(* service and their callers, as a state machine.                          *)
(*                                                                         *)
(* Conventions of the model                                                *)
(*  - A JavaScript string that the code only compares (cardBrand, status,  *)
(*    declineReasonCode, criteria) is a TLA+ string.  Undefined stands for *)
(*    the JavaScript value undefined / a missing property.                 *)
(*  - A string the code builds or takes apart (a month key, a formatted    *)
(*    month) is a sequence of one-character strings.                       *)
(*  - A JavaScript number that may be NaN is a record [nan, v].            *)
(*  - An amount is an integer number of mills (1/1000 of the currency      *)
(*    unit), so that rounding to 2 decimals (10 mills) is not the identity.*)
(*  - An instant is [year, month, edge]: its UTC calendar year and month   *)
(*    (1..12) and whether it lies within the first hours of that month     *)
(*    ("start"), the last hours ("end") or in between ("mid").  The        *)
(*    server's time zone tz is the sign of its UTC offset.                 *)
(***************************************************************************)
EXTENDS Integers, Sequences, FiniteSets, TLC

VARIABLES
    transactions,   \* dataStore.js: the module-level list `transactions`
    now,            \* the system clock read by `new Date()`
    tz,             \* the server's time zone (sign of the UTC offset)
    call,           \* the operation last invoked, with its arguments
    out,            \* what that operation returned or threw
    calledAt,       \* the clock's value when that operation was invoked
    repeats,        \* how often it was then invoked again with the same arguments
    outArray,       \* which array object the returned list is
    gen,            \* generateMockData.js: how far generateTransactions has got
    appFilters,     \* App.jsx: the state `filters`
    loading,        \* App.jsx: the state `loading`
    error,          \* App.jsx: the state `error`
    shown,          \* App.jsx: the states `mtdSummary` and `monthlySummary`
    inFlight        \* the summary requests of the dashboard not yet answered

dashboard == <<appFilters, loading, error, shown, inFlight>>

vars == <<transactions, now, tz, call, out, calledAt, repeats, outArray, gen,
          appFilters, loading, error, shown, inFlight>>

-----------------------------------------------------------------------------
(* Bounds of the model *)

MaxLen == 2         \* longest list handed to calculateMetrics
MaxLenFilter == 2   \* longest list handed to the filters
MaxLenMonth == 3    \* longest list handed to the month summaries
MaxLenRepeat == 2   \* longest list in the repeated-call specification
MaxMonthChars == 2  \* longest month part of a key handed to formatMonthKey
MaxRepeats == 1    \* repeated invocations are counted up to this number
MaxLenApi == 2     \* longest list in the store under SpecApi

-----------------------------------------------------------------------------
(* JavaScript values *)

Undefined == "<undefined>"

\* ToBoolean of a string-or-undefined value: undefined and "" are falsy.
Truthy(v) == v # Undefined /\ v # ""

Num(n) == [nan |-> FALSE, v |-> n]
NaN == [nan |-> TRUE, v |-> 0]

\* a + b on numbers: NaN is absorbing.
NumAdd(a, b) == IF a.nan \/ b.nan THEN NaN ELSE Num(a.v + b.v)

Digit(d) == CASE d = 0 -> "0" [] d = 1 -> "1" [] d = 2 -> "2" [] d = 3 -> "3"
              [] d = 4 -> "4" [] d = 5 -> "5" [] d = 6 -> "6" [] d = 7 -> "7"
              [] d = 8 -> "8" [] d = 9 -> "9"

RECURSIVE NatToString(_)
NatToString(n) == IF n < 10 THEN <<Digit(n)>>
                  ELSE NatToString(n \div 10) \o <<Digit(n % 10)>>

\* String(x) / template-literal conversion of a number.
NumToString(x) == IF x.nan THEN <<"N", "a", "N">>
                  ELSE IF x.v < 0 THEN <<"-">> \o NatToString(-x.v)
                  ELSE NatToString(x.v)

\* String.prototype.padStart(len, "0")
RECURSIVE PadStart(_, _)
PadStart(s, len) == IF Len(s) >= len THEN s ELSE PadStart(<<"0">> \o s, len)

IsDigit(c) == c \in {"0", "1", "2", "3", "4", "5", "6", "7", "8", "9"}

DigitVal(c) == CASE c = "0" -> 0 [] c = "1" -> 1 [] c = "2" -> 2 [] c = "3" -> 3
                 [] c = "4" -> 4 [] c = "5" -> 5 [] c = "6" -> 6 [] c = "7" -> 7
                 [] c = "8" -> 8 [] c = "9" -> 9

\* The value of the longest prefix of digits of s, acc being the value so far.
RECURSIVE DigitsPrefix(_, _)
DigitsPrefix(s, acc) ==
    IF s = <<>> \/ ~IsDigit(Head(s)) THEN acc
    ELSE DigitsPrefix(Tail(s), 10 * acc + DigitVal(Head(s)))

RECURSIVE TrimStart(_)
TrimStart(s) == IF s # <<>> /\ Head(s) = " " THEN TrimStart(Tail(s)) ELSE s

\* String(undefined), as a template literal or parseInt renders it.
UndefinedStr == <<"u", "n", "d", "e", "f", "i", "n", "e", "d">>

\* parseInt(s): leading white space is skipped, an optional sign is read, then
\* the longest run of digits; NaN when there is no digit.
ParseInt(s) ==
    LET t == TrimStart(s)
        neg == t # <<>> /\ Head(t) = "-"
        u == IF t # <<>> /\ Head(t) \in {"-", "+"} THEN Tail(t) ELSE t
    IN IF u = <<>> \/ ~IsDigit(Head(u)) THEN NaN
       ELSE IF neg THEN Num(-DigitsPrefix(u, 0)) ELSE Num(DigitsPrefix(u, 0))

\* The index of the first "-" of s at or after position i, 0 when there is none.
RECURSIVE IndexOfHyphen(_, _)
IndexOfHyphen(s, i) == IF i > Len(s) THEN 0
                       ELSE IF s[i] = "-" THEN i
                       ELSE IndexOfHyphen(s, i + 1)

\* s.split("-"): the sequence of the pieces of s between hyphens.
RECURSIVE SplitHyphen(_)
SplitHyphen(s) ==
    LET i == IndexOfHyphen(s, 1)
    IN IF i = 0 THEN <<s>>
       ELSE <<SubSeq(s, 1, i - 1)>> \o SplitHyphen(SubSeq(s, i + 1, Len(s)))

\* UTF-16 code unit of the characters month keys are made of (the order of <, >).
CodeUnit(c) == CASE c = " " -> 32 [] c = "+" -> 43 [] c = "-" -> 45
                 [] IsDigit(c) -> 48 + DigitVal(c)
                 [] c = "N" -> 78 [] c = "a" -> 97 [] c = "x" -> 120
                 [] OTHER -> 200

\* s < t in JavaScript: lexicographic by code unit, a proper prefix first.
RECURSIVE StrLess(_, _)
StrLess(s, t) ==
    IF t = <<>> THEN FALSE
    ELSE IF s = <<>> THEN TRUE
    ELSE IF Head(s) # Head(t) THEN CodeUnit(Head(s)) < CodeUnit(Head(t))
    ELSE StrLess(Tail(s), Tail(t))

\* Primary collation rank of the same characters (String.prototype.localeCompare
\* with the default collator): white space and punctuation, then digits, then
\* letters in alphabetical order regardless of case.
CollationRank(c) == CASE c = " " -> 1 [] c = "-" -> 2 [] c = "+" -> 3
                      [] IsDigit(c) -> 10 + DigitVal(c)
                      [] c = "a" -> 30 [] c = "N" -> 43 [] c = "x" -> 53
                      [] OTHER -> 100

\* a.localeCompare(b): negative, zero or positive.
RECURSIVE LocaleCompare(_, _)
LocaleCompare(a, b) ==
    IF a = <<>> /\ b = <<>> THEN 0
    ELSE IF a = <<>> THEN -1
    ELSE IF b = <<>> THEN 1
    ELSE IF Head(a) # Head(b)
         THEN (IF CollationRank(Head(a)) < CollationRank(Head(b)) THEN -1 ELSE 1)
    ELSE LocaleCompare(Tail(a), Tail(b))

-----------------------------------------------------------------------------
(* Dates *)

\* The value a transactionDate that cannot be parsed stands for.
BadDate == [parseable |-> FALSE, year |-> 0, month |-> 1, edge |-> "mid"]

Instant(y, m, e) == [parseable |-> TRUE, year |-> y, month |-> m, edge |-> e]

\* new Date(x): an Invalid Date when x cannot be parsed, else the instant.
NewDate(x) == IF x.parseable THEN [valid |-> TRUE, year |-> x.year, month |-> x.month, edge |-> x.edge]
              ELSE [valid |-> FALSE, year |-> 0, month |-> 1, edge |-> "mid"]

\* The local calendar month an instant falls in, as months since year 0: west
\* of UTC the first hours of a month still belong to the month before, east of
\* UTC the last hours already belong to the next one.
LocalMonthIndex(d, zone) ==
    LET utc == 12 * d.year + (d.month - 1)
    IN IF d.edge = "start" /\ zone < 0 THEN utc - 1
       ELSE IF d.edge = "end" /\ zone > 0 THEN utc + 1
       ELSE utc

\* Date.prototype.getFullYear(): NaN on an Invalid Date.
GetFullYear(d, zone) == IF ~d.valid THEN NaN ELSE Num(LocalMonthIndex(d, zone) \div 12)

\* Date.prototype.getMonth(): 0..11, NaN on an Invalid Date.
GetMonth(d, zone) == IF ~d.valid THEN NaN ELSE Num(LocalMonthIndex(d, zone) % 12)

-----------------------------------------------------------------------------
(* aggregationService.js *)

\* getCurrentMonthKey with getMonth() taken as the month number (no + 1).
getCurrentMonthKeyZeroBased(clock, zone) ==
    LET d == NewDate(clock)
    IN NumToString(GetFullYear(d, zone)) \o <<"-">>
           \o PadStart(NumToString(GetMonth(d, zone)), 2)

\* getCurrentMonthKey(): `new Date()` reads the clock.
getCurrentMonthKey(clock, zone) ==
    LET d == NewDate(clock)
    IN NumToString(GetFullYear(d, zone)) \o <<"-">>
           \o PadStart(NumToString(NumAdd(GetMonth(d, zone), Num(1))), 2)

\* getMonthKey without the padStart.
getMonthKeyUnpadded(date, zone) ==
    LET d == NewDate(date)
    IN NumToString(GetFullYear(d, zone)) \o <<"-">>
           \o NumToString(NumAdd(GetMonth(d, zone), Num(1)))

\* getMonthKey(date)
getMonthKey(date, zone) ==
    LET d == NewDate(date)
    IN NumToString(GetFullYear(d, zone)) \o <<"-">>
           \o PadStart(NumToString(NumAdd(GetMonth(d, zone), Num(1))), 2)

monthNames == << <<"J","a","n">>, <<"F","e","b">>, <<"M","a","r">>, <<"A","p","r">>,
                 <<"M","a","y">>, <<"J","u","n">>, <<"J","u","l">>, <<"A","u","g">>,
                 <<"S","e","p">>, <<"O","c","t">>, <<"N","o","v">>, <<"D","e","c">> >>

\* monthNames[i] for a JavaScript number i: undefined outside 0..11 and for NaN.
MonthNameAt(i) == IF ~i.nan /\ i.v >= 0 /\ i.v <= 11 THEN monthNames[i.v + 1]
                  ELSE UndefinedStr

\* formatMonthKey indexing monthNames with the month number itself.
formatMonthKeyOneBased(monthKey) ==
    LET parts == SplitHyphen(monthKey)
        year == parts[1]
        month == IF Len(parts) >= 2 THEN parts[2] ELSE UndefinedStr
    IN MonthNameAt(ParseInt(month)) \o <<" ">> \o year

\* formatMonthKey(monthKey): never throws on a string; what is not a month
\* name is rendered "undefined".
formatMonthKey(monthKey) ==
    LET parts == SplitHyphen(monthKey)
        year == parts[1]
        month == IF Len(parts) >= 2 THEN parts[2] ELSE UndefinedStr
    IN MonthNameAt(NumAdd(ParseInt(month), Num(-1))) \o <<" ">> \o year

\* Number.prototype.toFixed(2) followed by parseFloat, on a non-negative sum of
\* mills: the nearest multiple of 10 mills (the input sets hold no exact tie).
ToFixed2(x) == ((x + 5) \div 10) * 10

\* Array.prototype.reduce((sum, t) => sum + t.amount, 0)
RECURSIVE SumAmount(_)
SumAmount(list) == IF list = <<>> THEN 0
                   ELSE SumAmount(SubSeq(list, 1, Len(list) - 1)) + list[Len(list)].amount

EmptyMap == [k \in {} |-> 0]

BrandZero == [total |-> 0, approved |-> 0, declined |-> 0, amount |-> 0]

\* The property names that an object literal `{}` inherits from
\* Object.prototype: reading one of them from an object that has no such
\* property of its own gives the inherited (truthy) value.
ObjectPrototypeKeys ==
    {"constructor", "hasOwnProperty", "isPrototypeOf", "propertyIsEnumerable",
     "toLocaleString", "toString", "valueOf", "__proto__", "__defineGetter__",
     "__defineSetter__", "__lookupGetter__", "__lookupSetter__"}

\* One step of the forEach that groups by card brand (app.js 106-117).  For a
\* brand that names an inherited property, `!byCardBrand[b]` is false, no
\* entry is created, and the increments are written to the inherited object:
\* byCardBrand is left as it was.
BrandStep(byCardBrand, t) ==
    LET b == t.cardBrand
        created == IF b \in DOMAIN byCardBrand THEN byCardBrand
                   ELSE (b :> BrandZero) @@ byCardBrand
        e == created[b]
    IN IF b \notin DOMAIN byCardBrand /\ b \in ObjectPrototypeKeys THEN byCardBrand
       ELSE [created EXCEPT ![b] =
                [total |-> e.total + 1,
                 amount |-> e.amount + t.amount,
                 approved |-> IF t.status = "Approved" THEN e.approved + 1 ELSE e.approved,
                 declined |-> IF t.status = "Approved" THEN e.declined ELSE e.declined + 1]]

\* The grouping by card brand started from an all-zero entry for each of the
\* four known brands instead of from the empty object.
RECURSIVE GroupByCardBrandOfKnownBrands(_)
GroupByCardBrandOfKnownBrands(list) ==
    IF list = <<>>
    THEN [b \in {"Visa", "Mastercard", "Amex", "Discover"} |-> BrandZero]
    ELSE BrandStep(GroupByCardBrandOfKnownBrands(SubSeq(list, 1, Len(list) - 1)),
                   list[Len(list)])

RECURSIVE GroupByCardBrand(_)
GroupByCardBrand(list) ==
    IF list = <<>> THEN EmptyMap
    ELSE BrandStep(GroupByCardBrand(SubSeq(list, 1, Len(list) - 1)), list[Len(list)])

\* One step of the forEach over `declined` that groups by decline reason
\* (app.js 121-128).
ReasonStep(byDeclineReason, t) ==
    LET r == t.declineReasonCode
    IN IF ~Truthy(r) THEN byDeclineReason
       ELSE IF r \in DOMAIN byDeclineReason
            THEN [byDeclineReason EXCEPT ![r] = @ + 1]
       ELSE (r :> 1) @@ byDeclineReason

RECURSIVE GroupByDeclineReason(_)
GroupByDeclineReason(list) ==
    IF list = <<>> THEN EmptyMap
    ELSE ReasonStep(GroupByDeclineReason(SubSeq(list, 1, Len(list) - 1)), list[Len(list)])

IsApprovedTxn(t) == t.status = "Approved"

\* The predicate of `declined` (app.js 102).
IsDeclinedTxn(t) == t.status = "Declined"

\* calculateMetrics(transactions)
calculateMetrics(list) ==
    LET approved == SelectSeq(list, IsApprovedTxn)
        declined == SelectSeq(list, IsDeclinedTxn)
    IN [totalTransactions |-> Len(list),
        totalApproved |-> Len(approved),
        totalDeclined |-> Len(declined),
        totalAmount |-> ToFixed2(SumAmount(list)),
        approvedAmount |-> ToFixed2(SumAmount(approved)),
        declinedAmount |-> ToFixed2(SumAmount(declined)),
        byCardBrand |-> GroupByCardBrand(list),
        byDeclineReason |-> GroupByDeclineReason(declined)]

\* calculateMTDSummary keeping the records of the clock's very instant instead
\* of those of its month.
calculateMTDSummaryByInstant(list, clock, zone) ==
    LET currentMonthKey == getCurrentMonthKey(clock, zone)
        AtInstant(t) == t.transactionDate = clock
    IN [month |-> currentMonthKey,
        monthFormatted |-> formatMonthKey(currentMonthKey)]
       @@ calculateMetrics(SelectSeq(list, AtInstant))

\* calculateMTDSummary summarising every record, whatever its month.
calculateMTDSummaryOfAll(list, clock, zone) ==
    LET currentMonthKey == getCurrentMonthKey(clock, zone)
    IN [month |-> currentMonthKey,
        monthFormatted |-> formatMonthKey(currentMonthKey)]
       @@ calculateMetrics(list)

\* calculateMTDSummary(transactions), reading the clock and the time zone.
calculateMTDSummary(list, clock, zone) ==
    LET currentMonthKey == getCurrentMonthKey(clock, zone)
        InMonth(t) == getMonthKey(t.transactionDate, zone) = currentMonthKey
        mtdTransactions == SelectSeq(list, InMonth)
    IN [month |-> currentMonthKey,
        monthFormatted |-> formatMonthKey(currentMonthKey)]
       @@ calculateMetrics(mtdTransactions)

\* The index of the entry of byMonth with the given key, 0 when there is none.
RECURSIVE KeyIndex(_, _, _)
KeyIndex(byMonth, key, i) == IF i > Len(byMonth) THEN 0
                             ELSE IF byMonth[i].key = key THEN i
                             ELSE KeyIndex(byMonth, key, i + 1)

\* The grouping with `byMonth[monthKey] = [t]` in place of the push.
RECURSIVE GroupByMonthOverwrite(_, _)
GroupByMonthOverwrite(list, zone) ==
    IF list = <<>> THEN <<>>
    ELSE LET byMonth == GroupByMonthOverwrite(SubSeq(list, 1, Len(list) - 1), zone)
             t == list[Len(list)]
             monthKey == getMonthKey(t.transactionDate, zone)
             i == KeyIndex(byMonth, monthKey, 1)
         IN IF i = 0 THEN Append(byMonth, [key |-> monthKey, txns |-> <<t>>])
            ELSE [byMonth EXCEPT ![i].txns = <<t>>]

\* The forEach that groups by month (app.js 178-184); byMonth is the object's
\* entries in insertion order, which is the order Object.entries gives.
RECURSIVE GroupByMonth(_, _)
GroupByMonth(list, zone) ==
    IF list = <<>> THEN <<>>
    ELSE LET byMonth == GroupByMonth(SubSeq(list, 1, Len(list) - 1), zone)
             t == list[Len(list)]
             monthKey == getMonthKey(t.transactionDate, zone)
             i == KeyIndex(byMonth, monthKey, 1)
         IN IF i = 0 THEN Append(byMonth, [key |-> monthKey, txns |-> <<t>>])
            ELSE [byMonth EXCEPT ![i].txns = Append(@, t)]

\* The comparator with its operands swapped (oldest month first).
MonthComparatorAscending(a, b) == LocaleCompare(a.month, b.month)

\* The comparator of the sort (app.js 197): negative when a goes first.
MonthComparator(a, b) == LocaleCompare(b.month, a.month)

\* x put into the sorted sequence s behind every entry that does not go after it.
RECURSIVE InsertSorted(_, _)
InsertSorted(s, x) ==
    IF s = <<>> THEN <<x>>
    ELSE IF MonthComparator(s[Len(s)], x) <= 0 THEN Append(s, x)
    ELSE Append(InsertSorted(SubSeq(s, 1, Len(s) - 1), x), s[Len(s)])

\* Array.prototype.sort(MonthComparator): a stable sort.
RECURSIVE SortSummaries(_)
SortSummaries(s) ==
    IF s = <<>> THEN <<>>
    ELSE InsertSorted(SortSummaries(SubSeq(s, 1, Len(s) - 1)), s[Len(s)])

\* The map over Object.entries(byMonth) (app.js 187-194).
MonthEntrySummary(e) ==
    [month |-> e.key, monthFormatted |-> formatMonthKey(e.key)]
    @@ calculateMetrics(e.txns)

\* calculateMonthByMonthSummary(transactions)
calculateMonthByMonthSummary(list, zone) ==
    LET byMonth == GroupByMonth(list, zone)
        monthlySummaries == [i \in 1..Len(byMonth) |-> MonthEntrySummary(byMonth[i])]
    IN SortSummaries(monthlySummaries)

\* What an aggregation function leaves in the array it was given: the array
\* is read with filter, forEach and reduce; push and sort are applied to
\* arrays that the function has built itself.
InputAfterAggregation(list) == list

-----------------------------------------------------------------------------
(* filterService.js *)

\* Array.prototype.filter(t => t.cardBrand === cardBrand) and its two siblings.
RECURSIVE FilterField(_, _, _)
FilterField(list, field, value) ==
    IF list = <<>> THEN <<>>
    ELSE LET rest == FilterField(Tail(list), field, value)
         IN IF Head(list)[field] = value THEN <<Head(list)>> \o rest ELSE rest

\* filterByCardBrand taking "all" for a brand like any other.
filterByCardBrandNoSentinel(list, cardBrand) ==
    IF ~Truthy(cardBrand) THEN list
    ELSE FilterField(list, "cardBrand", cardBrand)

filterByCardBrand(list, cardBrand) ==
    IF ~Truthy(cardBrand) \/ cardBrand = "all" THEN list
    ELSE FilterField(list, "cardBrand", cardBrand)

\* The records of list up to the first one whose field is not value.
RECURSIVE TakeWhileField(_, _, _)
TakeWhileField(list, field, value) ==
    IF list = <<>> THEN <<>>
    ELSE IF Head(list)[field] = value
         THEN <<Head(list)>> \o TakeWhileField(Tail(list), field, value)
         ELSE <<>>

\* filterByStatus stopping at the first record that has another status.
filterByStatusUpToFirstMiss(list, status) ==
    IF ~Truthy(status) \/ status = "all" THEN list
    ELSE TakeWhileField(list, "status", status)

\* filterByStatus falling back on the whole list when no record has the status.
filterByStatusOrAll(list, status) ==
    IF ~Truthy(status) \/ status = "all" THEN list
    ELSE IF FilterField(list, "status", status) = <<>> THEN list
    ELSE FilterField(list, "status", status)

filterByStatus(list, status) ==
    IF ~Truthy(status) \/ status = "all" THEN list
    ELSE FilterField(list, "status", status)

\* filterByDeclineReasonCode letting through the records that carry no code.
filterByDeclineReasonCodeLenient(list, declineReasonCode) ==
    IF ~Truthy(declineReasonCode) \/ declineReasonCode = "all" THEN list
    ELSE SelectSeq(list, LAMBDA t : \/ ~Truthy(t.declineReasonCode)
                                    \/ t.declineReasonCode = declineReasonCode)

filterByDeclineReasonCode(list, declineReasonCode) ==
    IF ~Truthy(declineReasonCode) \/ declineReasonCode = "all" THEN list
    ELSE FilterField(list, "declineReasonCode", declineReasonCode)

\* applyFilters with the third filter run on the input list instead of on the
\* running result.
applyFiltersOnInput(list, filters) ==
    LET r1 == IF Truthy(filters.cardBrand) THEN filterByCardBrand(list, filters.cardBrand) ELSE list
        r2 == IF Truthy(filters.status) THEN filterByStatus(r1, filters.status) ELSE r1
    IN IF Truthy(filters.declineReasonCode)
       THEN filterByDeclineReasonCode(list, filters.declineReasonCode) ELSE r2

\* applyFilters(transactions, filters)
applyFilters(list, filters) ==
    LET r0 == list
        r1 == IF Truthy(filters.cardBrand) THEN filterByCardBrand(r0, filters.cardBrand) ELSE r0
        r2 == IF Truthy(filters.status) THEN filterByStatus(r1, filters.status) ELSE r1
        r3 == IF Truthy(filters.declineReasonCode)
              THEN filterByDeclineReasonCode(r2, filters.declineReasonCode) ELSE r2
    IN r3

\* Which array object a list is: the caller's own array ("input"), the copy
\* made by `[...transactions]` ("copy"), or an array built by
\* Array.prototype.filter ("filtered").  A single filter returns the array it
\* was given when it does not filter.
FilterArray(given, value) ==
    IF ~Truthy(value) \/ value = "all" THEN given ELSE "filtered"

\* applyFilters working on the caller's array instead of on a copy of it.
applyFiltersArrayNoCopy(filters) ==
    LET r0 == "input"
        r1 == IF Truthy(filters.cardBrand) THEN FilterArray(r0, filters.cardBrand) ELSE r0
        r2 == IF Truthy(filters.status) THEN FilterArray(r1, filters.status) ELSE r1
    IN IF Truthy(filters.declineReasonCode)
       THEN FilterArray(r2, filters.declineReasonCode) ELSE r2

\* The array object that applyFilters returns.
applyFiltersArray(filters) ==
    LET r0 == "copy"
        r1 == IF Truthy(filters.cardBrand) THEN FilterArray(r0, filters.cardBrand) ELSE r0
        r2 == IF Truthy(filters.status) THEN FilterArray(r1, filters.status) ELSE r1
    IN IF Truthy(filters.declineReasonCode)
       THEN FilterArray(r2, filters.declineReasonCode) ELSE r2

\* The filters removing from the caller's array the records they drop.
InputAfterFilteringInPlace(list, result) == result

\* What a filter or applyFilters leaves in the array it was given, list, when
\* it returns result: the spread and Array.prototype.filter build new arrays,
\* and nothing is assigned to the argument or to its records.
InputAfterFiltering(list, result) == list

-----------------------------------------------------------------------------
(* routes/transactionRoutes.js *)

\* A returned value, or the message of the Error thrown.
Returned(v) == [threw |-> "none", value |-> v]

\* throw new TypeError(...)
Thrown(message) == [threw |-> message, value |-> <<>>]

\* A null among the records of the store (transactions.json may hold any JSON):
\* reading a property of it raises a TypeError.
NullRecord ==
    [cardBrand |-> "<null>", status |-> "<null>", declineReasonCode |-> "<null>",
     amount |-> 0, transactionDate |-> BadDate]

HasNull(list) == \E i \in 1..Len(list) : list[i] = NullRecord

NullRead == "Cannot read properties of null"

\* applyFilters raises when a filter that is applied reads a null record: the
\* filters that are skipped (no criterion, or 'all') return the list untouched.
applyFiltersThrows(list, filters) ==
    /\ HasNull(list)
    /\ \/ Truthy(filters.cardBrand) /\ filters.cardBrand # "all"
       \/ Truthy(filters.status) /\ filters.status # "all"
       \/ Truthy(filters.declineReasonCode) /\ filters.declineReasonCode # "all"

\* calculateMTDSummary and calculateMonthByMonthSummary read the
\* transactionDate of every record.
SummaryThrows(list) == HasNull(list)

\* The try block of a handler: the first failure raised ends it.
Try(throws, body) == IF throws THEN Thrown(NullRead) ELSE Returned(body)

\* A handler with the catch answering as if nothing had happened.
RespondOkOnFailure(result) ==
    IF result.threw = "none" THEN [status |-> 200, body |-> result.value]
    ELSE [status |-> 200, body |-> [success |-> TRUE, error |-> result.threw]]

\* try { ... res.json(body) } catch (error) { res.status(500).json(...) }
Respond(result) ==
    IF result.threw = "none" THEN [status |-> 200, body |-> result.value]
    ELSE [status |-> 500, body |-> [success |-> FALSE, error |-> result.threw]]

\* The `filters` member of the /summary response.
FiltersEcho(query) ==
    [cardBrand |-> IF Truthy(query.cardBrand) THEN query.cardBrand ELSE "all",
     status |-> IF Truthy(query.status) THEN query.status ELSE "all",
     declineReasonCode |-> IF Truthy(query.declineReasonCode)
                           THEN query.declineReasonCode ELSE "all"]

\* GET /api/transactions
listRoute(store, query) ==
    LET filtered == applyFilters(store, query)
    IN Respond(Try(applyFiltersThrows(store, query),
                   [success |-> TRUE, count |-> Len(filtered), data |-> filtered]))

\* GET /api/transactions/summary with the months summarised from the store.
summaryRouteMonthsOfStore(store, query, clock, zone) ==
    LET filtered == applyFilters(store, query)
        mtdSummary == calculateMTDSummary(filtered, clock, zone)
        monthByMonth == calculateMonthByMonthSummary(store, zone)
    IN Respond(Try(applyFiltersThrows(store, query) \/ SummaryThrows(store),
                   [success |-> TRUE, filters |-> FiltersEcho(query),
                    mtdSummary |-> mtdSummary, monthByMonth |-> monthByMonth]))

\* GET /api/transactions/summary
summaryRoute(store, query, clock, zone) ==
    LET filtered == applyFilters(store, query)
        mtdSummary == calculateMTDSummary(filtered, clock, zone)
        monthByMonth == calculateMonthByMonthSummary(filtered, zone)
    IN Respond(Try(applyFiltersThrows(store, query) \/ SummaryThrows(store),
                   [success |-> TRUE, filters |-> FiltersEcho(query),
                    mtdSummary |-> mtdSummary, monthByMonth |-> monthByMonth]))

\* GET /api/transactions/mtd
mtdRoute(store, query, clock, zone) ==
    LET filtered == applyFilters(store, query)
    IN Respond(Try(applyFiltersThrows(store, query) \/ SummaryThrows(store),
                   [success |-> TRUE,
                    data |-> calculateMTDSummary(filtered, clock, zone)]))

\* GET /api/transactions/monthly
monthlyRoute(store, query, zone) ==
    LET filtered == applyFilters(store, query)
    IN Respond(Try(applyFiltersThrows(store, query) \/ SummaryThrows(store),
                   [success |-> TRUE,
                    data |-> calculateMonthByMonthSummary(filtered, zone)]))

\* GET /api/transactions/filters
filtersRoute ==
    Respond(Returned(
        [success |-> TRUE,
         data |-> [cardBrands |-> <<"Visa", "Mastercard", "Amex", "Discover">>,
                   statuses |-> <<"Approved", "Declined">>,
                   declineReasonCodes |-> <<"01-Insufficient funds",
                                            "02-Invalid card number",
                                            "03-Suspected fraud">>]]))

\* What a filtering route leaves in the store: getTransactions() hands the
\* store's own array to applyFilters, and the summaries are computed from the
\* array that applyFilters returns.
StoreAfterRoute(store, query) == InputAfterFiltering(store, applyFilters(store, query))

-----------------------------------------------------------------------------
(* app.js: the middleware chain *)

\* A response without a body (204, and every answer to HEAD).
NoBody == [length |-> 0]

NotFoundBody == [success |-> FALSE, error |-> "Endpoint not found"]

\* What a response to req carries: Node sends no body in answer to HEAD.
BodyFor(req, body) == IF req.method = "HEAD" THEN NoBody ELSE body

\* router.get(path, ...) and app.get(path, ...) answer GET, and HEAD too.
IsGet(req) == req.method \in {"GET", "HEAD"}

Answer(req, by, response) ==
    [by |-> by, status |-> response.status, body |-> BodyFor(req, response.body)]

\* No route has matched: next() is called.
Unrouted == [by |-> "none", status |-> 0, body |-> NoBody]

\* The routes of transactionRoutes.js, the router being mounted at
\* /api/transactions.
transactionRoutes(req, store, clock, zone) ==
    IF ~IsGet(req) THEN Unrouted
    ELSE CASE req.path = "/api/transactions" ->
                  Answer(req, "GET /api/transactions", listRoute(store, req.query))
           [] req.path = "/api/transactions/summary" ->
                  Answer(req, "GET /api/transactions/summary",
                         summaryRoute(store, req.query, clock, zone))
           [] req.path = "/api/transactions/mtd" ->
                  Answer(req, "GET /api/transactions/mtd",
                         mtdRoute(store, req.query, clock, zone))
           [] req.path = "/api/transactions/monthly" ->
                  Answer(req, "GET /api/transactions/monthly",
                         monthlyRoute(store, req.query, zone))
           [] req.path = "/api/transactions/filters" ->
                  Answer(req, "GET /api/transactions/filters", filtersRoute)
           [] OTHER -> Unrouted

\* app.get('/api/health', ...)
healthRoute(req, clock) ==
    Answer(req, "GET /api/health",
           [status |-> 200, body |-> [status |-> "ok", timestamp |-> clock]])

\* The catch-all of app.js.
notFound(req) == Answer(req, "catch-all", [status |-> 404, body |-> NotFoundBody])

\* The global error handler of app.js.
errorHandler(req) ==
    Answer(req, "error handler",
           [status |-> 500, body |-> [success |-> FALSE, error |-> "Internal server error"]])

\* The chain with the catch-all mounted before the health check.
appCatchAllBeforeHealth(req, store, clock, zone) ==
    IF req.method = "OPTIONS" THEN [by |-> "cors", status |-> 204, body |-> NoBody]
    ELSE IF req.body = "malformed" THEN errorHandler(req)
    ELSE LET routed == transactionRoutes(req, store, clock, zone)
         IN IF routed.by # "none" THEN routed ELSE notFound(req)

\* The application: cors() answers every OPTIONS request itself;
\* express.json() passes a body it cannot parse as an error to the global
\* error handler; then the router, the health check and the catch-all, in
\* the order they are mounted.
app(req, store, clock, zone) ==
    IF req.method = "OPTIONS" THEN [by |-> "cors", status |-> 204, body |-> NoBody]
    ELSE IF req.body = "malformed" THEN errorHandler(req)
    ELSE LET routed == transactionRoutes(req, store, clock, zone)
         IN IF routed.by # "none" THEN routed
            ELSE IF IsGet(req) /\ req.path = "/api/health" THEN healthRoute(req, clock)
            ELSE notFound(req)

-----------------------------------------------------------------------------
(* scripts/generateMockData.js *)

CARD_BRANDS == <<"Visa", "Mastercard", "Amex", "Discover">>
STATUSES == <<"Approved", "Declined">>
DECLINE_REASON_CODES ==
    <<"01-Insufficient funds", "02-Invalid card number", "03-Suspected fraud">>

\* getRandomElement(arr), r being the index that Math.random() picks.
getRandomElement(arr, r) == arr[((r - 1) % Len(arr)) + 1]

\* generateTransaction drawing a decline reason whatever the status.
generateTransactionWithReason(draw) ==
    [cardBrand |-> getRandomElement(CARD_BRANDS, draw.cardBrand),
     status |-> getRandomElement(STATUSES, draw.status),
     declineReasonCode |-> getRandomElement(DECLINE_REASON_CODES, draw.reason),
     amount |-> draw.amount,
     transactionDate |-> draw.date]

\* generateTransaction(), draw being what Math.random() picks for the status,
\* the brand, the amount, the date and (when it is asked) the decline reason.
generateTransaction(draw) ==
    LET status == getRandomElement(STATUSES, draw.status)
        transaction ==
            [cardBrand |-> getRandomElement(CARD_BRANDS, draw.cardBrand),
             status |-> status,
             declineReasonCode |-> Undefined,
             amount |-> draw.amount,
             transactionDate |-> draw.date]
    IN IF status = "Declined"
       THEN [transaction EXCEPT
                !.declineReasonCode = getRandomElement(DECLINE_REASON_CODES, draw.reason)]
       ELSE transaction

\* Math.ceil(count * 0.3)
CurrentMonthCount(count) == (3 * count + 9) \div 10

\* new Date(transactionDate) as a number: instants in time order.
Timestamp(d) ==
    3 * (12 * d.year + (d.month - 1))
        + (CASE d.edge = "start" -> 0 [] d.edge = "mid" -> 1 [] d.edge = "end" -> 2)

\* transactions.sort((a, b) => new Date(b.transactionDate) - new Date(a.transactionDate)):
\* most recent first, equal dates in their order of generation.
RECURSIVE InsertByDate(_, _)
InsertByDate(s, t) ==
    IF s = <<>> THEN <<t>>
    ELSE IF Timestamp(t.transactionDate) > Timestamp(Head(s).transactionDate)
         THEN <<t>> \o s
         ELSE <<Head(s)>> \o InsertByDate(Tail(s), t)

RECURSIVE SortByDate(_)
SortByDate(s) ==
    IF s = <<>> THEN <<>>
    ELSE InsertByDate(SortByDate(SubSeq(s, 1, Len(s) - 1)), s[Len(s)])

\* The script before generateTransactions is called.
GenIdle == [pc |-> "idle", count |-> 0, transactions |-> <<>>]

-----------------------------------------------------------------------------
(* frontend/src/api/transactionApi.js *)

\* The query that fetchSummary sends: a key is appended only for a value that
\* is truthy and not "all"; the server reads a key that was not sent as
\* undefined.
SummaryParams(filters) ==
    [cardBrand |-> IF Truthy(filters.cardBrand) /\ filters.cardBrand # "all"
                   THEN filters.cardBrand ELSE Undefined,
     status |-> IF Truthy(filters.status) /\ filters.status # "all"
                THEN filters.status ELSE Undefined,
     declineReasonCode |->
         IF Truthy(filters.declineReasonCode) /\ filters.declineReasonCode # "all"
         THEN filters.declineReasonCode ELSE Undefined]

\* fetchSummary(filters), given the response to its request.
fetchSummary(response) ==
    IF response.status \in 200..299 THEN Returned(response.body)
    ELSE [threw |-> "Failed to fetch summary", value |-> <<>>]

-----------------------------------------------------------------------------
(* frontend/src/App.jsx *)

\* null
Null == "<null>"

\* useState(null) of mtdSummary: no summary yet.
NoSummary == [null |-> TRUE]

\* useState({ cardBrand: 'all', status: 'all', declineReasonCode: 'all' })
AllFilters == [cardBrand |-> "all", status |-> "all", declineReasonCode |-> "all"]

\* handleFilterChange keeping the decline reason whatever the status.
handleFilterChangeKeepingReason(newFilters) == newFilters

\* handleFilterChange(newFilters): the value handed to setFilters.
handleFilterChange(newFilters) ==
    IF newFilters.status = "Approved"
    THEN [newFilters EXCEPT !.declineReasonCode = "all"]
    ELSE newFilters

\* effectiveFilters of loadSummaryData.
effectiveFilters(filters) ==
    IF filters.status = "Approved"
    THEN [filters EXCEPT !.declineReasonCode = "all"]
    ELSE filters

\* The request loadSummaryData sends for the filters of its render.
SummaryRequest(filters) == SummaryParams(effectiveFilters(filters))

\* loadSummaryData after the await, given the response to its request: the
\* states it sets, before the finally.
AfterResponse(response, before) ==
    LET result == fetchSummary(response)
    IN IF result.threw # "none" THEN [before EXCEPT !.error = result.threw]
       ELSE IF result.value.success
            THEN [before EXCEPT !.shown = [mtdSummary |-> result.value.mtdSummary,
                                           monthlySummary |-> result.value.monthByMonth]]
            ELSE [before EXCEPT !.error = "Failed to fetch summary data"]

(* frontend/src/components/FilterSection.jsx *)

\* <select disabled={loading || group.disabled}>, group.disabled being set
\* for the Decline Reason group only.
SelectDisabled(field, filters, isLoading) ==
    isLoading \/ (field = "declineReasonCode" /\ filters.status = "Approved")

-----------------------------------------------------------------------------
(* Inputs *)

Txn(b, s, r, a, d) ==
    [cardBrand |-> b, status |-> s, declineReasonCode |-> r, amount |-> a,
     transactionDate |-> d]

Criteria(b, s, r) == [cardBrand |-> b, status |-> s, declineReasonCode |-> r]

ListsUpTo(S, n) == UNION {[1..k -> S] : k \in 0..n}

R01 == "01-Insufficient funds"
R02 == "02-Invalid card number"

FebMid == Instant(2026, 2, "mid")

\* Records for calculateMetrics: every field the metrics read varies; status
\* and cardBrand are open strings ("Pending" is neither of the two known
\* statuses, "constructor" is none of the four known brands).
MetricsPool ==
    {Txn(b, s, r, a, FebMid) :
        b \in {"Visa", "Mastercard"}, s \in {"Approved", "Declined", "Pending"},
        r \in {Undefined, R01}, a \in {4, 1000}}
    \cup {Txn("constructor", s, Undefined, 1000, FebMid) : s \in {"Approved", "Declined"}}

\* Records for the filters: the three filtered fields vary, a decline reason
\* being present or not whatever the status.
FilterPool ==
    {Txn("Visa", s, r, 1000, FebMid) : s \in {"Approved", "Declined"}, r \in {Undefined, R01}}
    \cup {Txn("Visa", "Declined", R02, 1000, FebMid),
          Txn("Mastercard", "Approved", Undefined, 1000, FebMid),
          Txn("Mastercard", "Declined", R01, 1000, FebMid)}

\* A criterion is absent, empty, the sentinel "all", or a concrete value: one
\* that occurs in the pool, or one that does not ("visa" differs from the
\* pool's "Visa" in case only).
FilterCriteria ==
    {Criteria(b, s, r) :
        b \in {Undefined, "all", "Visa", "visa"},
        s \in {Undefined, "", "Declined"},
        r \in {Undefined, "all", R01}}

\* Dates for the month summaries: unparseable, and instants on both sides of a
\* month and of a year boundary.
DateValues ==
    {BadDate, Instant(2025, 12, "end"), Instant(2026, 1, "start"),
     Instant(2026, 1, "mid"), Instant(2026, 2, "mid")}

\* Dates for getMonthKey: unparseable, and the start, the middle and the end of
\* months written with one digit and with two, in two years.
KeyDates ==
    {BadDate} \cup {Instant(y, m, e) : y \in {2025, 2026}, m \in {1, 2, 9, 10, 12},
                                       e \in {"start", "mid", "end"}}

MonthPool ==
    {Txn("Visa", "Approved", Undefined, 1000, d) : d \in DateValues}
    \cup {Txn("Visa", "Declined", R01, 4, Instant(2026, 1, "mid"))}

\* The readings of the clock, in order.
ClockTicks == <<Instant(2026, 1, "end"), Instant(2026, 2, "mid")>>

TimeZones == {-1, 0, 1}

\* Records for the routes: brand, status, decline reason and month vary.
ApiPool ==
    {Txn("Visa", "Approved", Undefined, 1000, Instant(2026, 1, "mid")),
     Txn("Visa", "Declined", R01, 4, Instant(2026, 2, "mid")),
     Txn("Mastercard", "Declined", R01, 1000, Instant(2026, 1, "mid"))}

\* Queries and dashboard filters: a key is absent, empty, "all" or concrete.
ApiQueries ==
    {Criteria(Undefined, Undefined, Undefined), Criteria("all", "all", "all"),
     Criteria("Visa", Undefined, "all"), Criteria("Visa", "Declined", Undefined),
     Criteria("", "Declined", R01), Criteria(Undefined, "", R01)}

RepeatPool ==
    {Txn("Visa", "Approved", Undefined, 1000, Instant(2026, 1, "mid")),
     Txn("Visa", "Declined", R01, 4, Instant(2026, 2, "mid")),
     Txn("Mastercard", "Declined", R01, 1000, Instant(2026, 1, "end")),
     Txn("Mastercard", "Pending", Undefined, 4, BadDate)}

RepeatCriteria ==
    {Criteria(b, s, r) :
        b \in {Undefined, "Visa"}, s \in {"all", "Declined"}, r \in {Undefined, R01}}

\* Keys for formatMonthKey: a year, then with or without a hyphen a month part
\* of up to MaxMonthChars characters, digits or not.
MonthChars == {"0", "1", "2", "3", "9", "x"}

MonthParts == UNION {[1..k -> MonthChars] : k \in 0..MaxMonthChars}

KeyValues ==
    {y \o sep \o m :
        y \in {<<"2", "0", "2", "5">>, <<"2", "0", "2", "6">>, <<"9", "9">>},
        sep \in {<<"-">>, <<>>}, m \in MonthParts}

\* Keys for formatMonthKey as getMonthKey builds them: every month of two
\* years, and the two month numbers next to 01..12.
FormatKeys ==
    {NatToString(y) \o <<"-">> \o PadStart(NatToString(m), 2) :
        y \in {2025, 2026}, m \in 0..13}

-----------------------------------------------------------------------------
(* The state machine *)

NoCall == [op |-> "none", arg |-> <<>>]

\* The server's side: a loaded store, a clock, nothing invoked yet; the
\* generator script not started.
InitServer(lists, zones) ==
    /\ transactions \in lists
    /\ tz \in zones
    /\ now = ClockTicks[1]
    /\ calledAt = ClockTicks[1]
    /\ call = NoCall
    /\ out = Returned(<<>>)
    /\ repeats = 0
    /\ outArray = "none"
    /\ gen = GenIdle

\* The states of App as useState initialises them, nothing requested.
InitDashboard ==
    /\ appFilters = AllFilters
    /\ loading = TRUE
    /\ error = Null
    /\ shown = [mtdSummary |-> NoSummary, monthlySummary |-> <<>>]
    /\ inFlight = <<>>

InitWith(lists, zones) == InitServer(lists, zones) /\ InitDashboard

\* An operation is invoked on the store's list: it returns result, the list it
\* returns (if it returns one) is the array object `array`, and it leaves
\* `after` in the array it was given.  The clock is left alone.
Invoke(op, arg, result, array, after) ==
    /\ call' = [op |-> op, arg |-> arg]
    /\ out' = result
    /\ calledAt' = now
    /\ repeats' = IF call.op # op THEN 0
                  ELSE IF call.arg # arg THEN 0
                  ELSE IF repeats < MaxRepeats THEN repeats + 1 ELSE repeats
    /\ outArray' = array
    /\ transactions' = after
    /\ UNCHANGED <<now, tz, gen, dashboard>>

CallCalculateMetrics ==
    Invoke("calculateMetrics", <<>>, Returned(calculateMetrics(transactions)),
           "none", InputAfterAggregation(transactions))

CallCalculateMTDSummary ==
    Invoke("calculateMTDSummary", <<>>,
           Returned(calculateMTDSummary(transactions, now, tz)),
           "none", InputAfterAggregation(transactions))

CallCalculateMonthByMonthSummary ==
    Invoke("calculateMonthByMonthSummary", <<>>,
           Returned(calculateMonthByMonthSummary(transactions, tz)),
           "none", InputAfterAggregation(transactions))

CallGetMonthKey(dates) ==
    \E d \in dates :
        Invoke("getMonthKey", d, Returned(getMonthKey(d, tz)), "none", transactions)

CallGetCurrentMonthKey ==
    Invoke("getCurrentMonthKey", <<>>, Returned(getCurrentMonthKey(now, tz)),
           "none", transactions)

CallFormatMonthKey(keys) ==
    \E k \in keys :
        Invoke("formatMonthKey", k, Returned(formatMonthKey(k)), "none", transactions)

CallApplyFilters(criteria) ==
    \E f \in criteria :
        LET result == applyFilters(transactions, f)
        IN Invoke("applyFilters", f, Returned(result), applyFiltersArray(f),
                  InputAfterFiltering(transactions, result))

CallFilterByCardBrand(criteria) ==
    \E v \in {f.cardBrand : f \in criteria} :
        LET result == filterByCardBrand(transactions, v)
        IN Invoke("filterByCardBrand", v, Returned(result), FilterArray("input", v),
                  InputAfterFiltering(transactions, result))

CallFilterByStatus(criteria) ==
    \E v \in {f.status : f \in criteria} :
        LET result == filterByStatus(transactions, v)
        IN Invoke("filterByStatus", v, Returned(result), FilterArray("input", v),
                  InputAfterFiltering(transactions, result))

CallFilterByDeclineReasonCode(criteria) ==
    \E v \in {f.declineReasonCode : f \in criteria} :
        LET result == filterByDeclineReasonCode(transactions, v)
        IN Invoke("filterByDeclineReasonCode", v, Returned(result),
                  FilterArray("input", v), InputAfterFiltering(transactions, result))

\* A request is answered: the response is kept in out.
Request(path, query, response, after) ==
    Invoke(path, query, Returned(response), "none", after)

GetTransactions(queries) ==
    \E q \in queries :
        Request("GET /api/transactions", q, listRoute(transactions, q),
                StoreAfterRoute(transactions, q))

GetSummary(queries) ==
    \E q \in queries :
        Request("GET /api/transactions/summary", q,
                summaryRoute(transactions, q, now, tz), StoreAfterRoute(transactions, q))

GetMtd(queries) ==
    \E q \in queries :
        Request("GET /api/transactions/mtd", q,
                mtdRoute(transactions, q, now, tz), StoreAfterRoute(transactions, q))

GetMonthly(queries) ==
    \E q \in queries :
        Request("GET /api/transactions/monthly", q,
                monthlyRoute(transactions, q, tz), StoreAfterRoute(transactions, q))

GetFilters ==
    Request("GET /api/transactions/filters", <<>>, filtersRoute, transactions)

\* The dashboard asks for the summaries of its current filters.
CallFetchSummary(criteria) ==
    \E f \in criteria :
        LET q == SummaryParams(f)
        IN Invoke("fetchSummary", f,
                  fetchSummary(summaryRoute(transactions, q, now, tz)),
                  "none", StoreAfterRoute(transactions, q))

\* Time passes.
Tick ==
    /\ \E i \in 1..(Len(ClockTicks) - 1) : now = ClockTicks[i] /\ now' = ClockTicks[i + 1]
    /\ UNCHANGED <<transactions, tz, call, out, calledAt, repeats, outArray, gen, dashboard>>

\* calculateMetrics on lists whose every field varies.
Init == InitWith(ListsUpTo(MetricsPool, MaxLen), {0})
Next == CallCalculateMetrics
Spec == Init /\ [][Next]_vars

\* The filters, over lists and criteria.
InitFilter == InitWith(ListsUpTo(FilterPool, MaxLenFilter), {0})
NextFilter ==
    \/ CallApplyFilters(FilterCriteria)
    \/ CallFilterByCardBrand(FilterCriteria)
    \/ CallFilterByStatus(FilterCriteria)
    \/ CallFilterByDeclineReasonCode(FilterCriteria)
SpecFilter == InitFilter /\ [][NextFilter]_vars

\* The month summaries, over dated lists, time zones and a running clock.
InitMonth == InitWith(ListsUpTo(MonthPool, MaxLenMonth), TimeZones)
NextMonth ==
    \/ CallCalculateMTDSummary
    \/ CallCalculateMonthByMonthSummary
    \/ Tick
SpecMonth == InitMonth /\ [][NextMonth]_vars

\* getMonthKey over dates and time zones, formatMonthKey over well-formed and
\* malformed keys.
InitKeys == InitWith({<<>>}, TimeZones)
NextKeys ==
    \/ CallGetMonthKey(DateValues)
    \/ CallFormatMonthKey(KeyValues)
SpecKeys == InitKeys /\ [][NextKeys]_vars

\* formatMonthKey over the keys of every month of two years, and the two month
\* summaries that format their own keys.
InitFormat == InitWith(ListsUpTo(RepeatPool, MaxLenRepeat), TimeZones)
NextFormat ==
    \/ CallFormatMonthKey(FormatKeys)
    \/ CallCalculateMTDSummary
    \/ CallCalculateMonthByMonthSummary
    \/ Tick
SpecFormat == InitFormat /\ [][NextFormat]_vars

\* getMonthKey over the months of two years, getCurrentMonthKey while time
\* passes, in every time zone.
InitMonthKey == InitWith({<<>>}, TimeZones)
NextMonthKey ==
    \/ CallGetMonthKey(KeyDates)
    \/ CallGetCurrentMonthKey
    \/ Tick
SpecMonthKey == InitMonthKey /\ [][NextMonthKey]_vars

\* Every engine operation, invoked again and again on one list while time passes.
InitRepeat == InitWith(ListsUpTo(RepeatPool, MaxLenRepeat), TimeZones)
NextRepeat ==
    \/ CallCalculateMetrics
    \/ CallCalculateMTDSummary
    \/ CallCalculateMonthByMonthSummary
    \/ CallApplyFilters(RepeatCriteria)
    \/ CallFilterByCardBrand(RepeatCriteria)
    \/ CallFilterByStatus(RepeatCriteria)
    \/ CallFilterByDeclineReasonCode(RepeatCriteria)
    \/ Tick
SpecRepeat == InitRepeat /\ [][NextRepeat]_vars

\* The routes, the dashboard's client and the engine operations, on one store.
InitApi == InitWith(ListsUpTo(ApiPool, MaxLenApi), {0})
NextApi ==
    \/ GetTransactions(ApiQueries)
    \/ GetSummary(ApiQueries)
    \/ GetMtd(ApiQueries)
    \/ GetMonthly(ApiQueries)
    \/ GetFilters
    \/ CallFetchSummary(ApiQueries)
    \/ CallApplyFilters(ApiQueries)
    \/ CallFilterByCardBrand(ApiQueries)
    \/ CallFilterByStatus(ApiQueries)
    \/ CallFilterByDeclineReasonCode(ApiQueries)
    \/ CallCalculateMetrics
    \/ CallCalculateMTDSummary
    \/ CallCalculateMonthByMonthSummary
SpecApi == InitApi /\ [][NextApi]_vars

-----------------------------------------------------------------------------
(* Vocabulary of the claims *)

Indices(list) == 1..Len(list)

\* The number of records of list that P holds of.
CountOf(list, P(_)) == Cardinality({i \in Indices(list) : P(list[i])})

RECURSIVE SumOfSet(_, _)
\* The sum of f[x] over the finite set S.
SumOfSet(f, S) == IF S = {} THEN 0
                  ELSE LET x == CHOOSE y \in S : TRUE
                       IN f[x] + SumOfSet(f, S \ {x})

\* The sum of the amounts of the records of list that P holds of.
AmountOf(list, P(_)) ==
    LET sel == {i \in Indices(list) : P(list[i])}
    IN SumOfSet([i \in sel |-> list[i].amount], sel)

\* x mills to the nearest cent, in mills.
NearestCent(x) == 10 * CHOOSE c \in 0..(x \div 10 + 1) : 2 * (10 * c - x) \in -9..10

NotApprovedTxn(t) == t.status # "Approved"
AnyTxn(t) == TRUE

Metrics == out.value

-----------------------------------------------------------------------------
(* Claims about calculateMetrics, under Spec *)

\* C1: for every list L, calculateMetrics(L).totalTransactions is the length
\* of L, and totalApproved + totalDeclined is totalTransactions, whatever the
\* status strings of L are.
C1_CountsAddUp ==
    call.op = "calculateMetrics" =>
        /\ Metrics.totalTransactions = Len(transactions)
        /\ Metrics.totalApproved + Metrics.totalDeclined = Metrics.totalTransactions

\* C2: calculateMetrics uses one binary partition everywhere: approved is
\* status = "Approved", every other record is declined, in the scalar totals
\* and in byCardBrand alike, so the declined counts of the brands add up to
\* totalDeclined.
C2_OneBinaryPartition ==
    call.op = "calculateMetrics" =>
        /\ Metrics.totalApproved = CountOf(transactions, IsApprovedTxn)
        /\ Metrics.totalDeclined = CountOf(transactions, NotApprovedTxn)
        /\ Metrics.declinedAmount = NearestCent(AmountOf(transactions, NotApprovedTxn))
        /\ \A b \in DOMAIN Metrics.byCardBrand :
               LET OfBrand(t) == t.cardBrand = b /\ NotApprovedTxn(t)
               IN Metrics.byCardBrand[b].declined = CountOf(transactions, OfBrand)
        /\ SumOfSet([b \in DOMAIN Metrics.byCardBrand |-> Metrics.byCardBrand[b].declined],
                    DOMAIN Metrics.byCardBrand) = Metrics.totalDeclined

\* C9: totalAmount is the sum of all amounts rounded to 2 decimals once, at the
\* end; approvedAmount and declinedAmount are the rounded sums over the approved
\* records and over the declined (all other) records.
C9_RoundedSums ==
    call.op = "calculateMetrics" =>
        /\ Metrics.totalAmount = NearestCent(AmountOf(transactions, AnyTxn))
        /\ Metrics.approvedAmount = NearestCent(AmountOf(transactions, IsApprovedTxn))
        /\ Metrics.declinedAmount = NearestCent(AmountOf(transactions, NotApprovedTxn))

-----------------------------------------------------------------------------
(* Claims about the filters, under SpecFilter *)

\* A criterion that filters: present, not empty, not the sentinel "all".
Concrete(v) == v # Undefined /\ v # "" /\ v # "all"

\* t passes every concrete criterion of f.
Satisfies(t, f) ==
    /\ Concrete(f.cardBrand) => t.cardBrand = f.cardBrand
    /\ Concrete(f.status) => t.status = f.status
    /\ Concrete(f.declineReasonCode) => t.declineReasonCode = f.declineReasonCode

\* The k-th smallest element of the set of indices S.
KthOf(S, k) == CHOOSE i \in S : Cardinality({j \in S : j <= i}) = k

\* result is the records of list at the indices S, in the order of list.
IsSelection(result, list, S) ==
    /\ Len(result) = Cardinality(S)
    /\ \A k \in Indices(result) : result[k] = list[KthOf(S, k)]

\* C3: applyFilters(L, C) holds records of L only, in the order of L, and a
\* record of L is in it exactly when it passes every concrete criterion of C
\* on cardBrand, status and declineReasonCode.
C3_ConjunctionOfCriteria ==
    call.op = "applyFilters" =>
        IsSelection(out.value, transactions,
                    {i \in Indices(transactions) : Satisfies(transactions[i], call.arg)})

\* applyFilters ran with three concrete criteria, kept a record and dropped one.
C3_Witness ==
    /\ call.op = "applyFilters"
    /\ Concrete(call.arg.cardBrand) /\ Concrete(call.arg.status)
    /\ Concrete(call.arg.declineReasonCode)
    /\ Len(out.value) >= 1
    /\ Len(out.value) < Len(transactions)

-----------------------------------------------------------------------------
(* Claims about the month summaries, under SpecMonth *)

Summaries == out.value

\* C4: calculateMonthByMonthSummary(L) partitions L: the months of the
\* summaries are pairwise distinct, every record of L is counted in the one
\* summary whose month is the month key of its transactionDate, and the
\* totalTransactions of the summaries add up to the length of L.
C4_MonthsPartition ==
    call.op = "calculateMonthByMonthSummary" =>
        /\ \A i, j \in Indices(Summaries) :
               i # j => Summaries[i].month # Summaries[j].month
        /\ \A i \in Indices(transactions) :
               \E k \in Indices(Summaries) :
                   Summaries[k].month = getMonthKey(transactions[i].transactionDate, tz)
        /\ \A k \in Indices(Summaries) :
               LET OfMonth(t) == getMonthKey(t.transactionDate, tz) = Summaries[k].month
               IN Summaries[k].totalTransactions = CountOf(transactions, OfMonth)
        /\ SumOfSet([k \in Indices(Summaries) |-> Summaries[k].totalTransactions],
                    Indices(Summaries)) = Len(transactions)

\* The summary of a list spread over several months, two of its records in one.
C4_Witness ==
    /\ call.op = "calculateMonthByMonthSummary"
    /\ Len(Summaries) >= 2
    /\ \E k \in Indices(Summaries) : Summaries[k].totalTransactions >= 2

\* C5: the sequence calculateMonthByMonthSummary returns is strictly descending
\* by month key: month[i] > month[i+1] as strings, for all adjacent entries.
C5_StrictlyDescending ==
    call.op = "calculateMonthByMonthSummary" =>
        \A i \in 1..(Len(Summaries) - 1) :
            StrLess(Summaries[i + 1].month, Summaries[i].month)

\* Three months were summarised, from a list that did not come newest first.
C5_Witness ==
    /\ call.op = "calculateMonthByMonthSummary"
    /\ Len(Summaries) >= 3
    /\ getMonthKey(transactions[1].transactionDate, tz) # Summaries[1].month

MetricsPart(summary) ==
    [k \in DOMAIN summary \ {"month", "monthFormatted"} |-> summary[k]]

\* C6: calculateMTDSummary(L) returns a summary whose month is monthKey(now)
\* and whose metrics are calculateMetrics of the records of L whose month key
\* is monthKey(now); when there is no such record it is still a summary of the
\* current month, every scalar zero and both mappings empty.
C6_MonthToDate ==
    call.op = "calculateMTDSummary" =>
        LET InCurrentMonth(t) ==
                getMonthKey(t.transactionDate, tz) = getMonthKey(calledAt, tz)
            current == SelectSeq(transactions, InCurrentMonth)
        IN /\ out.threw = "none"
           /\ out.value.month = getMonthKey(calledAt, tz)
           /\ MetricsPart(out.value) = calculateMetrics(current)
           /\ current = <<>> =>
                  /\ out.value.totalTransactions = 0
                  /\ out.value.totalApproved = 0
                  /\ out.value.totalDeclined = 0
                  /\ out.value.totalAmount = 0
                  /\ out.value.approvedAmount = 0
                  /\ out.value.declinedAmount = 0
                  /\ DOMAIN out.value.byCardBrand = {}
                  /\ DOMAIN out.value.byDeclineReason = {}

\* The month-to-date summary of a list that has records, none of them in the
\* current month.
C6_Witness ==
    /\ call.op = "calculateMTDSummary"
    /\ Len(transactions) >= 1
    /\ out.value.totalTransactions = 0
    /\ out.value.month = <<"2", "0", "2", "6", "-", "0", "2">>

HasBadDate == \E i \in Indices(transactions) : ~transactions[i].transactionDate.parseable

\* C7: a transactionDate that cannot be parsed makes calculateMTDSummary and
\* calculateMonthByMonthSummary fail with a DateParseError: nothing is
\* returned, so no "NaN-NaN" key and no bucket for the record.
C7_DateParseError ==
    (call.op \in {"calculateMTDSummary", "calculateMonthByMonthSummary"} /\ HasBadDate)
        => out.threw = "DateParseError"

-----------------------------------------------------------------------------
(* Claims about the keys, under SpecKeys *)

\* "YYYY-MM": four digits, a hyphen, two digits that are a month number 1..12.
WellFormedKey(k) ==
    /\ Len(k) = 7
    /\ \A i \in {1, 2, 3, 4, 6, 7} : IsDigit(k[i])
    /\ k[5] = "-"
    /\ 10 * DigitVal(k[6]) + DigitVal(k[7]) \in 1..12

\* C8: formatMonthKey(key) fails with InvalidKey whenever key is not a
\* well-formed "YYYY-MM" or its month is outside 1..12; it returns no string
\* for such a key.
C8_InvalidKey ==
    (call.op = "formatMonthKey" /\ ~WellFormedKey(call.arg)) => out.threw = "InvalidKey"

-----------------------------------------------------------------------------
(* Claims about repeated invocations, under SpecRepeat *)

\* The operation of the state is invoked again, with the same arguments.
SameCallAgain == call.op # "none" /\ call'.op = call.op /\ call'.arg = call.arg

\* C10: an engine operation invoked twice with the same input returns the same
\* output, calculateMTDSummary included, at whatever two times it is invoked.
C10_SameInputSameOutput == [][SameCallAgain => out' = out]_vars

\* C10, amended: an engine operation invoked twice with the same input returns
\* the same output; for calculateMTDSummary, when the two invocations fall in
\* the same local calendar month.
C10_SameInputAndMonthSameOutput ==
    [][(/\ SameCallAgain
        /\ call.op = "calculateMTDSummary" =>
               LocalMonthIndex(calledAt', tz) = LocalMonthIndex(calledAt, tz))
       => out' = out]_vars

\* calculateMTDSummary was invoked again on a list with records of the month,
\* later than at the first reading of the clock.
C10_Witness ==
    /\ call.op = "calculateMTDSummary"
    /\ repeats >= 1
    /\ calledAt # ClockTicks[1]
    /\ out.value.totalTransactions >= 1

-----------------------------------------------------------------------------
(* Claims about the routes and the store, under SpecApi *)

WithoutIdleKeys(f) ==
    [cardBrand |-> IF Concrete(f.cardBrand) THEN f.cardBrand ELSE Undefined,
     status |-> IF Concrete(f.status) THEN f.status ELSE Undefined,
     declineReasonCode |-> IF Concrete(f.declineReasonCode)
                           THEN f.declineReasonCode ELSE Undefined]

\* C14: a criterion that is absent, empty or "all" is no filter: the filtered
\* list, and every response computed from it, is the one obtained for the
\* criteria without those keys; and the dashboard's client, which leaves "all"
\* values out of the query string, gets what a caller sending them gets.
C14_IdleCriteriaAreNoFilter ==
    /\ call.op = "applyFilters" =>
           out.value = applyFilters(transactions, WithoutIdleKeys(call.arg))
    /\ call.op = "GET /api/transactions" =>
           out.value = listRoute(transactions, WithoutIdleKeys(call.arg))
    /\ call.op = "GET /api/transactions/summary" =>
           out.value = summaryRoute(transactions, WithoutIdleKeys(call.arg), calledAt, tz)
    /\ call.op = "GET /api/transactions/mtd" =>
           out.value = mtdRoute(transactions, WithoutIdleKeys(call.arg), calledAt, tz)
    /\ call.op = "GET /api/transactions/monthly" =>
           out.value = monthlyRoute(transactions, WithoutIdleKeys(call.arg), tz)
    /\ call.op = "fetchSummary" =>
           /\ out.threw = "none"
           /\ out.value = summaryRoute(transactions, call.arg, calledAt, tz).body

\* The client asked for the summaries of one brand and "all" decline reasons,
\* and got summaries that leave out a record of the store.
C14_Witness ==
    /\ call.op = "fetchSummary"
    /\ call.arg.cardBrand = "Visa"
    /\ call.arg.declineReasonCode = "all"
    /\ Len(out.value.monthByMonth) >= 1
    /\ \E i \in Indices(transactions) : transactions[i].cardBrand # "Visa"

\* C15: GET /summary with criteria C answers with an mtdSummary computed from
\* exactly the records of the store that pass C and fall in the current month,
\* and a monthByMonth computed from exactly the records that pass C; with a
\* concrete cardBrand no summary has a byCardBrand key other than that brand,
\* and its totals count that brand's records only.
C15_SummaryOfTheCriteria ==
    call.op = "GET /api/transactions/summary" =>
        LET Passes(t) == Satisfies(t, call.arg)
            InCurrentMonth(t) ==
                getMonthKey(t.transactionDate, tz) = getMonthKey(calledAt, tz)
            passing == SelectSeq(transactions, Passes)
            mtd == out.value.body.mtdSummary
            months == out.value.body.monthByMonth
            CountIn(key) ==
                Cardinality({i \in Indices(transactions) :
                                /\ Passes(transactions[i])
                                /\ getMonthKey(transactions[i].transactionDate, tz) = key})
        IN /\ out.value.status = 200
           /\ MetricsPart(mtd) = calculateMetrics(SelectSeq(passing, InCurrentMonth))
           /\ mtd.totalTransactions = CountIn(getMonthKey(calledAt, tz))
           /\ months = calculateMonthByMonthSummary(passing, tz)
           /\ \A k \in Indices(months) : months[k].totalTransactions = CountIn(months[k].month)
           /\ \A i \in Indices(passing) :
                  \E k \in Indices(months) :
                      months[k].month = getMonthKey(passing[i].transactionDate, tz)
           /\ Concrete(call.arg.cardBrand) =>
                  /\ DOMAIN mtd.byCardBrand \subseteq {call.arg.cardBrand}
                  /\ \A k \in Indices(months) :
                         DOMAIN months[k].byCardBrand = {call.arg.cardBrand}

\* GET /summary?cardBrand=Visa was answered from a store holding another brand
\* in the current month: the current month and another month have Visa records.
C15_Witness ==
    /\ call.op = "GET /api/transactions/summary"
    /\ call.arg.cardBrand = "Visa"
    /\ \E i \in Indices(transactions) :
           /\ transactions[i].cardBrand # "Visa"
           /\ getMonthKey(transactions[i].transactionDate, tz) = getMonthKey(calledAt, tz)
    /\ out.value.body.mtdSummary.totalTransactions >= 1
    /\ Len(out.value.body.monthByMonth) >= 1

-----------------------------------------------------------------------------
(* Claims about the filters, under SpecFilter *)

NoCriteria == Criteria(Undefined, Undefined, Undefined)

\* C12: applyFilters(L, C) with no criteria supplied returns a new list, an
\* array other than L, that equals L element for element in the same order.
C12_NoCriteriaCopies ==
    (call.op = "applyFilters" /\ call.arg = NoCriteria) =>
        /\ outArray # "input"
        /\ out.threw = "none"
        /\ Len(out.value) = Len(transactions)
        /\ \A i \in Indices(transactions) : out.value[i] = transactions[i]

\* applyFilters was invoked without criteria on a list of several records.
C12_Witness ==
    /\ call.op = "applyFilters"
    /\ call.arg = NoCriteria
    /\ Len(transactions) >= 2
    /\ transactions[1] # transactions[2]
    /\ outArray = "copy"


\* The field that a single filter compares.
FilteredField ==
    CASE call.op = "filterByCardBrand" -> "cardBrand"
      [] call.op = "filterByStatus" -> "status"
      [] call.op = "filterByDeclineReasonCode" -> "declineReasonCode"
      [] OTHER -> "none"

\* C13: a single filter returns its list unchanged when its value is absent,
\* empty or "all"; otherwise it returns, in order, exactly the records whose
\* field is that very value (compared case-sensitively), so that a record
\* without declineReasonCode is never among them.
C13_SingleFilter ==
    FilteredField # "none" =>
        /\ out.threw = "none"
        /\ IF Concrete(call.arg)
           THEN /\ IsSelection(out.value, transactions,
                               {i \in Indices(transactions) :
                                    transactions[i][FilteredField] = call.arg})
                /\ FilteredField = "declineReasonCode" =>
                       \A k \in Indices(out.value) :
                           out.value[k].declineReasonCode # Undefined
           ELSE out.value = transactions

\* filterByDeclineReasonCode ran with a concrete code on a list holding a
\* record with that code and a record without any, and kept the first only.
C13_Witness ==
    /\ call.op = "filterByDeclineReasonCode"
    /\ Concrete(call.arg)
    /\ \E i \in Indices(transactions) : transactions[i].declineReasonCode = Undefined
    /\ Len(out.value) = 1
    /\ Len(transactions) = 2

-----------------------------------------------------------------------------
(* Claims about the two breakdowns of calculateMetrics, under Spec *)

\* The codes carried by the records of list that P holds of.
CodesOf(list, P(_)) ==
    {list[i].declineReasonCode :
        i \in {j \in Indices(list) : P(list[j]) /\ Truthy(list[j].declineReasonCode)}}

\* byDeclineReason is the count, code by code, of the records that P holds of
\* and that carry a code.
ReasonsCount(P(_)) ==
    /\ DOMAIN Metrics.byDeclineReason = CodesOf(transactions, P)
    /\ \A c \in DOMAIN Metrics.byDeclineReason :
           LET HasCode(t) == P(t) /\ t.declineReasonCode = c
           IN Metrics.byDeclineReason[c] = CountOf(transactions, HasCode)

\* C16: byDeclineReason counts the declined records (those that are not
\* approved) that carry a declineReasonCode: its keys are the codes present
\* among them, each value the number of them with that code; a declined record
\* without a code adds to totalDeclined and declinedAmount only, and the values
\* of byDeclineReason sum to totalDeclined at most.
C16_ReasonsOfDeclined ==
    call.op = "calculateMetrics" =>
        /\ ReasonsCount(NotApprovedTxn)
        /\ Metrics.totalDeclined = CountOf(transactions, NotApprovedTxn)
        /\ Metrics.declinedAmount = NearestCent(AmountOf(transactions, NotApprovedTxn))
        /\ SumOfSet(Metrics.byDeclineReason, DOMAIN Metrics.byDeclineReason)
               <= Metrics.totalDeclined

\* C17: byCardBrand has an entry for exactly the brands that occur in the
\* list; for each brand, total is the number of its records, approved and
\* declined add up to total, amount is the sum of its records' amounts whatever
\* their status; and the totals of all brands add up to totalTransactions.
C17_BrandsBreakdown ==
    call.op = "calculateMetrics" =>
        LET brands == {transactions[i].cardBrand : i \in Indices(transactions)}
            by == Metrics.byCardBrand
        IN /\ DOMAIN by = brands
           /\ \A b \in brands :
                  LET OfBrand(t) == t.cardBrand = b
                  IN /\ by[b].total = CountOf(transactions, OfBrand)
                     /\ by[b].approved + by[b].declined = by[b].total
                     /\ by[b].amount = AmountOf(transactions, OfBrand)
           /\ SumOfSet([b \in brands |-> by[b].total], brands) = Metrics.totalTransactions

-----------------------------------------------------------------------------
(* Claims about criteria that match nothing, under SpecFilter *)

\* No record of the store has value in field.
Unmatched(field, value) ==
    Concrete(value) /\ \A i \in Indices(transactions) : transactions[i][field] # value

\* C18: a concrete criterion value that no record has makes each filter, and
\* applyFilters, return the empty list without raising; aggregating that empty
\* list does not raise either (a zero summary, no month).
C18_NoMatchIsEmpty ==
    LET unmatched ==
            \/ FilteredField # "none" /\ Unmatched(FilteredField, call.arg)
            \/ /\ call.op = "applyFilters"
               /\ \/ Unmatched("cardBrand", call.arg.cardBrand)
                  \/ Unmatched("status", call.arg.status)
                  \/ Unmatched("declineReasonCode", call.arg.declineReasonCode)
    IN unmatched =>
           /\ out.threw = "none"
           /\ out.value = <<>>
           /\ calculateMetrics(out.value).totalTransactions = 0
           /\ calculateMonthByMonthSummary(out.value, tz) = <<>>

\* applyFilters ran on a list of records with a brand that none of them has.
C18_Witness ==
    /\ call.op = "applyFilters"
    /\ call.arg.cardBrand = "visa"
    /\ Len(transactions) >= 2
    /\ out.value = <<>>

-----------------------------------------------------------------------------
(* Claims about the empty list, under SpecRepeat *)

\* C19: calculateMetrics([]) has every scalar 0 and both mappings empty, and
\* calculateMonthByMonthSummary([]) is the empty sequence.
C19_EmptyList ==
    transactions = <<>> =>
        /\ call.op = "calculateMetrics" =>
               /\ out.threw = "none"
               /\ Metrics.totalTransactions = 0
               /\ Metrics.totalApproved = 0
               /\ Metrics.totalDeclined = 0
               /\ Metrics.totalAmount = 0
               /\ Metrics.approvedAmount = 0
               /\ Metrics.declinedAmount = 0
               /\ DOMAIN Metrics.byCardBrand = {}
               /\ DOMAIN Metrics.byDeclineReason = {}
        /\ call.op = "calculateMonthByMonthSummary" =>
               /\ out.threw = "none"
               /\ Len(Summaries) = 0

\* calculateMonthByMonthSummary was invoked on the empty list, twice in a row.
C19_Witness ==
    /\ transactions = <<>>
    /\ call.op = "calculateMonthByMonthSummary"
    /\ out.value = <<>>
    /\ repeats = 1

-----------------------------------------------------------------------------
(* Claims about the month keys, under SpecMonthKey *)

\* The key of the local calendar month with index idx (months since year 0):
\* the year, a hyphen, and the month 01..12 in two digits.
KeyOfMonthIndex(idx) ==
    LET month == (idx % 12) + 1
    IN NatToString(idx \div 12) \o <<"-", Digit(month \div 10), Digit(month % 10)>>

\* C20: for every valid date, getMonthKey returns the calendar year, a hyphen
\* and the 1-based month in exactly two digits (01..12); getCurrentMonthKey is
\* derived in the same time reference, so that getMonthKey(now) is
\* getCurrentMonthKey() at the same instant.
C20_MonthKey ==
    /\ (call.op = "getMonthKey" /\ call.arg.parseable) =>
           /\ out.threw = "none"
           /\ out.value = KeyOfMonthIndex(LocalMonthIndex(call.arg, tz))
           /\ out.value = getCurrentMonthKey(call.arg, tz)
    /\ call.op = "getCurrentMonthKey" =>
           /\ out.threw = "none"
           /\ out.value = KeyOfMonthIndex(LocalMonthIndex(calledAt, tz))
           /\ out.value = getMonthKey(calledAt, tz)

\* getMonthKey was given the first hours (UTC) of January 2026 on a server west
\* of UTC, where it is still December 2025.
C20_Witness ==
    /\ call.op = "getMonthKey"
    /\ call.arg = Instant(2026, 1, "start")
    /\ tz < 0
    /\ out.value = <<"2", "0", "2", "5", "-", "1", "2">>

-----------------------------------------------------------------------------
(* Claims about the formatted month, under SpecFormat *)

\* The 3-letter English abbreviation of month m.
Abbreviation(m) ==
    CASE m = 1 -> <<"J", "a", "n">> [] m = 2 -> <<"F", "e", "b">>
      [] m = 3 -> <<"M", "a", "r">> [] m = 4 -> <<"A", "p", "r">>
      [] m = 5 -> <<"M", "a", "y">> [] m = 6 -> <<"J", "u", "n">>
      [] m = 7 -> <<"J", "u", "l">> [] m = 8 -> <<"A", "u", "g">>
      [] m = 9 -> <<"S", "e", "p">> [] m = 10 -> <<"O", "c", "t">>
      [] m = 11 -> <<"N", "o", "v">> [] m = 12 -> <<"D", "e", "c">>

\* C21: for every well-formed key "YYYY-MM" with MM in 01..12, formatMonthKey
\* returns the 3-letter English abbreviation of month MM, a space and YYYY; and
\* every summary returned by calculateMTDSummary or
\* calculateMonthByMonthSummary has monthFormatted = formatMonthKey(month).
C21_FormattedMonth ==
    /\ (call.op = "formatMonthKey" /\ WellFormedKey(call.arg)) =>
           /\ out.threw = "none"
           /\ out.value = Abbreviation(10 * DigitVal(call.arg[6]) + DigitVal(call.arg[7]))
                              \o <<" ">> \o SubSeq(call.arg, 1, 4)
    /\ call.op = "calculateMTDSummary" =>
           out.value.monthFormatted = formatMonthKey(out.value.month)
    /\ call.op = "calculateMonthByMonthSummary" =>
           \A k \in Indices(Summaries) :
               Summaries[k].monthFormatted = formatMonthKey(Summaries[k].month)

\* formatMonthKey was given the key of a December.
C21_Witness ==
    /\ call.op = "formatMonthKey"
    /\ call.arg = <<"2", "0", "2", "5", "-", "1", "2">>
    /\ out.value = <<"D", "e", "c", " ", "2", "0", "2", "5">>

-----------------------------------------------------------------------------
(* Claims about the two month summaries together, under SpecMonth *)

\* The summary of a month without records.
ZeroSummary(key) ==
    [month |-> key, monthFormatted |-> formatMonthKey(key),
     totalTransactions |-> 0, totalApproved |-> 0, totalDeclined |-> 0,
     totalAmount |-> 0, approvedAmount |-> 0, declinedAmount |-> 0,
     byCardBrand |-> EmptyMap, byDeclineReason |-> EmptyMap]

\* mtd and months, computed from one list at one instant, agree on the month
\* with the given key.
AgreeOnMonth(mtd, months, key) ==
    IF \E k \in Indices(months) : months[k].month = key
    THEN \A k \in Indices(months) : months[k].month = key => months[k] = mtd
    ELSE mtd = ZeroSummary(key)

\* C29: for every list L evaluated at one instant, calculateMTDSummary(L)
\* agrees with calculateMonthByMonthSummary(L): the entry of the current month,
\* if there is one, equals calculateMTDSummary(L) field for field; otherwise
\* calculateMTDSummary(L) is the zeroed summary of the current month.
C29_MonthToDateIsAMonth ==
    /\ call.op = "calculateMTDSummary" =>
           AgreeOnMonth(out.value, calculateMonthByMonthSummary(transactions, tz),
                        getCurrentMonthKey(calledAt, tz))
    /\ call.op = "calculateMonthByMonthSummary" =>
           AgreeOnMonth(calculateMTDSummary(transactions, calledAt, tz), Summaries,
                        getCurrentMonthKey(calledAt, tz))

\* calculateMTDSummary ran on a list with several records of the current month
\* and records of other months.
C29_Witness ==
    /\ call.op = "calculateMTDSummary"
    /\ out.value.totalTransactions >= 2
    /\ out.value.totalTransactions < Len(transactions)

-----------------------------------------------------------------------------
(* Claims about the algebra of the filters, under SpecFilter *)

\* The three single filters.
ByBrand(list) == filterByCardBrand(list, call.arg.cardBrand)
ByStatus(list) == filterByStatus(list, call.arg.status)
ByReason(list) == filterByDeclineReasonCode(list, call.arg.declineReasonCode)

\* C30: the three filters commute and filtering is idempotent: applied in any
\* of the six orders, filterByCardBrand, filterByStatus and
\* filterByDeclineReasonCode yield the list that applyFilters yields for the
\* same three values, and applyFilters applied to its own result with the same
\* criteria returns that result.
C30_CommuteAndIdempotent ==
    call.op = "applyFilters" =>
        /\ ByReason(ByStatus(ByBrand(transactions))) = out.value
        /\ ByStatus(ByReason(ByBrand(transactions))) = out.value
        /\ ByReason(ByBrand(ByStatus(transactions))) = out.value
        /\ ByBrand(ByReason(ByStatus(transactions))) = out.value
        /\ ByStatus(ByBrand(ByReason(transactions))) = out.value
        /\ ByBrand(ByStatus(ByReason(transactions))) = out.value
        /\ applyFilters(out.value, call.arg) = out.value

\* applyFilters ran with a concrete brand and a concrete status on a list
\* where each of the two drops a different record.
C30_Witness ==
    /\ call.op = "applyFilters"
    /\ Concrete(call.arg.cardBrand) /\ Concrete(call.arg.status)
    /\ Len(transactions) = 2
    /\ Len(ByBrand(transactions)) = 1
    /\ Len(ByStatus(transactions)) = 1
    /\ out.value = <<>>

-----------------------------------------------------------------------------
(* The generator script as a state machine: generateTransactions(count) *)

\* The largest count generateTransactions is called with.
MaxCount == 2

\* What toISOString() can give for a date drawn in the month of the clock.
CurrentMonthDates(clock) == {Instant(clock.year, clock.month, e) : e \in {"start", "mid"}}

\* What generateRandomDate(6) can give: a date of the month of the clock or of
\* a month before it.
RandomDates(clock) ==
    CurrentMonthDates(clock)
        \cup {IF clock.month = 1 THEN Instant(clock.year - 1, 12, "mid")
              ELSE Instant(clock.year, clock.month - 1, "mid")}

\* What Math.random() can give to one generateTransaction() call.
Draws(clock) ==
    [cardBrand : 1..Len(CARD_BRANDS), status : 1..Len(STATUSES),
     reason : 1..Len(DECLINE_REASON_CODES), amount : {1000}, date : RandomDates(clock)]

\* generateTransactions(count) is entered: an empty array and the two counts.
GenStart ==
    /\ gen.pc = "idle"
    /\ \E count \in 0..MaxCount :
           gen' = [pc |-> "currentMonth", count |-> count, transactions |-> <<>>]
    /\ UNCHANGED <<transactions, now, tz, call, out, calledAt, repeats, outArray, dashboard>>

\* One turn of the first loop, or its exit.
GenCurrentMonth ==
    /\ gen.pc = "currentMonth"
    /\ IF Len(gen.transactions) < CurrentMonthCount(gen.count)
       THEN \E draw \in Draws(now), date \in CurrentMonthDates(now) :
                gen' = [gen EXCEPT !.transactions =
                           Append(@, [generateTransaction(draw) EXCEPT !.transactionDate = date])]
       ELSE gen' = [gen EXCEPT !.pc = "otherMonths"]
    /\ UNCHANGED <<transactions, now, tz, call, out, calledAt, repeats, outArray, dashboard>>

\* One turn of the second loop, or its exit.
GenOtherMonths ==
    /\ gen.pc = "otherMonths"
    /\ IF Len(gen.transactions) - CurrentMonthCount(gen.count)
              < gen.count - CurrentMonthCount(gen.count)
       THEN \E draw \in Draws(now) :
                gen' = [gen EXCEPT !.transactions = Append(@, generateTransaction(draw))]
       ELSE gen' = [gen EXCEPT !.pc = "sort"]
    /\ UNCHANGED <<transactions, now, tz, call, out, calledAt, repeats, outArray, dashboard>>

\* The sort and the return.
GenReturn ==
    /\ gen.pc = "sort"
    /\ gen' = [gen EXCEPT !.pc = "done", !.transactions = SortByDate(@)]
    /\ call' = [op |-> "generateTransactions", arg |-> gen.count]
    /\ out' = Returned(SortByDate(gen.transactions))
    /\ calledAt' = now
    /\ repeats' = 0
    /\ outArray' = "fresh"
    /\ UNCHANGED <<transactions, now, tz, dashboard>>

InitGen == InitWith({<<>>}, {0})
NextGen ==
    \/ GenStart
    \/ GenCurrentMonth
    \/ GenOtherMonths
    \/ GenReturn
SpecGen == InitGen /\ [][NextGen]_vars

\* Whether a record has the property declineReasonCode.
HasReason(t) == t.declineReasonCode # Undefined

WellFormedReason(t) ==
    /\ HasReason(t) <=> t.status = "Declined"
    /\ HasReason(t) => \E i \in 1..Len(DECLINE_REASON_CODES) :
                           t.declineReasonCode = DECLINE_REASON_CODES[i]

\* C24: every transaction the generator produces has a declineReasonCode if
\* and only if its status is "Declined", the code being one of the three
\* known ones, and generateTransactions(count) returns exactly count
\* transactions.
C24_GeneratedTransactions ==
    /\ \A i \in 1..Len(gen.transactions) : WellFormedReason(gen.transactions[i])
    /\ call.op = "generateTransactions" =>
           /\ Len(out.value) = call.arg
           /\ \A i \in 1..Len(out.value) : WellFormedReason(out.value[i])

\* generateTransactions has returned two transactions or more, one declined
\* and one approved.
C24_Witness ==
    /\ call.op = "generateTransactions"
    /\ call.arg >= 2
    /\ \E i, j \in 1..Len(out.value) :
           /\ out.value[i].status = "Declined" /\ HasReason(out.value[i])
           /\ out.value[j].status = "Approved" /\ ~HasReason(out.value[j])

-----------------------------------------------------------------------------
(* The routes over a store that holds a null *)

\* Stores for the failures: a record and a null.
FaultPool ==
    {Txn("Visa", "Declined", R01, 1000, Instant(2026, 1, "mid")), NullRecord}

FaultQueries ==
    {Criteria(Undefined, Undefined, Undefined), Criteria("all", "all", "all"),
     Criteria("Visa", Undefined, Undefined), Criteria(Undefined, "Declined", R01)}

InitFault == InitWith(ListsUpTo(FaultPool, MaxLenApi), {0})
NextFault ==
    \/ GetTransactions(FaultQueries)
    \/ GetSummary(FaultQueries)
    \/ GetMtd(FaultQueries)
    \/ GetMonthly(FaultQueries)
SpecFault == InitFault /\ [][NextFault]_vars

FilteringEndpoints ==
    {"GET /api/transactions", "GET /api/transactions/summary",
     "GET /api/transactions/mtd", "GET /api/transactions/monthly"}

\* Whether handling the request raises: a filter that applies, or a summary,
\* reads a record that is null.
HandlingRaises(op, store, query) ==
    \/ applyFiltersThrows(store, query)
    \/ op # "GET /api/transactions" /\ SummaryThrows(store)

-----------------------------------------------------------------------------
(* The application under HTTP requests of any method and path *)

DefinedPaths ==
    {"/api/transactions", "/api/transactions/summary", "/api/transactions/mtd",
     "/api/transactions/monthly", "/api/transactions/filters", "/api/health"}

\* Requests: the defined paths and three others (one under the router's mount
\* point), four methods, without a body or with one that is not JSON.
HttpRequests ==
    [method : {"GET", "HEAD", "POST", "OPTIONS"},
     path : DefinedPaths \cup {"/", "/api/nonexistent", "/api/transactions/nonexistent"},
     body : {"none", "malformed"},
     query : {Criteria(Undefined, Undefined, Undefined), Criteria("Visa", Undefined, Undefined)}]

HttpRequest ==
    \E req \in HttpRequests :
        Invoke("request", req, Returned(app(req, transactions, now, tz)), "none",
               transactions)

InitHttp == InitWith(ListsUpTo(FaultPool, MaxLenApi), {0})
NextHttp ==
    \/ HttpRequest
    \/ Tick
SpecHttp == InitHttp /\ [][NextHttp]_vars

\* The handler of a defined path.
HandlerOf(path) == "GET " \o path

\* C23: every request whose path is none of the defined endpoints is answered
\* 404 with {success:false, error:"Endpoint not found"}, and every request to
\* a defined endpoint is answered by that endpoint's handler, never by the
\* 404 handler.
C23_NotFoundIffUndefinedPath ==
    call.op = "request" =>
        IF call.arg.path \in DefinedPaths
        THEN out.value.by = HandlerOf(call.arg.path)
        ELSE out.value.status = 404 /\ out.value.body = NotFoundBody

\* C23 as the code has it: the statement holds of the GET requests whose
\* body, if any, parses. Every OPTIONS request is answered 204 by cors(), and
\* every other request whose JSON body does not parse is answered 500 by the
\* global error handler, whatever the path; the remaining requests of another
\* method get the 404 answer on every path (HEAD being served as GET, without
\* a body).
C23_GetNotFoundIffUndefinedPath ==
    call.op = "request" =>
        LET req == call.arg
            res == out.value
        IN CASE req.method = "OPTIONS" -> res.by = "cors" /\ res.status = 204
             [] req.method # "OPTIONS" /\ req.body = "malformed" ->
                    res.by = "error handler" /\ res.status = 500
             [] req.method = "GET" /\ req.body = "none" ->
                    IF req.path \in DefinedPaths
                    THEN res.by = HandlerOf(req.path) /\ res.status \in {200, 500}
                    ELSE res.by = "catch-all" /\ res.status = 404
                             /\ res.body = NotFoundBody
             [] req.method = "HEAD" /\ req.body = "none" ->
                    /\ res.body = NoBody
                    /\ IF req.path \in DefinedPaths THEN res.by = HandlerOf(req.path)
                       ELSE res.by = "catch-all" /\ res.status = 404
             [] OTHER -> res.by = "catch-all" /\ res.status = 404 /\ res.body = NotFoundBody

\* A GET of an undefined path under the router's mount point has got the 404
\* answer.
C23_Witness ==
    /\ call.op = "request"
    /\ call.arg.method = "GET"
    /\ call.arg.body = "none"
    /\ call.arg.path = "/api/transactions/nonexistent"
    /\ out.value.by = "catch-all"
    /\ out.value.status = 404

-----------------------------------------------------------------------------
(* The dashboard: App and FilterSection against the summary endpoint *)

\* The most summary requests unanswered at a time.
MaxInFlight == 2

server == <<transactions, now, tz, call, out, calledAt, repeats, outArray, gen>>

\* The store behind the dashboard: brands, statuses and decline reasons
\* differ, all dated in the month of the clock.
DashboardStore ==
    <<Txn("Visa", "Approved", Undefined, 1000, ClockTicks[1]),
      Txn("Visa", "Declined", R01, 4, ClockTicks[1]),
      Txn("Mastercard", "Declined", R02, 1000, ClockTicks[1])>>

\* The options of the three dropdowns.
FilterOptions ==
    [cardBrand |-> {"all", "Visa"},
     status |-> {"all", "Approved", "Declined"},
     declineReasonCode |-> {"all", R01}]

FilterFields == {"cardBrand", "status", "declineReasonCode"}

\* A response that is not the server's: the server cannot be reached.
Unavailable == [status |-> 503, body |-> [success |-> FALSE, error |-> "Service Unavailable"]]

\* The response of the server to a summary request.
SummaryResponse(query) == summaryRoute(transactions, query, now, tz)

\* loadSummaryData up to the await: loading, no error, and the request sent.
StartLoad(filters) ==
    /\ Len(inFlight) < MaxInFlight
    /\ loading' = TRUE
    /\ error' = Null
    /\ inFlight' = Append(inFlight, SummaryRequest(filters))
    /\ UNCHANGED <<shown, server>>

\* setFilters(newFilters), and the effect that the new filters trigger.
SetFilters(newFilters) ==
    /\ appFilters' = newFilters
    /\ StartLoad(newFilters)

\* A dropdown that is not disabled is set to another of its options.
SelectOption ==
    \E field \in FilterFields :
        \E value \in FilterOptions[field] :
            /\ ~SelectDisabled(field, appFilters, loading)
            /\ value # appFilters[field]
            /\ SetFilters(handleFilterChange([appFilters EXCEPT ![field] = value]))

\* The x of an active-filter chip: shown for a filter that is not 'all'.
RemoveChip ==
    \E field \in FilterFields :
        /\ appFilters[field] # "all"
        /\ SetFilters(handleFilterChange([appFilters EXCEPT ![field] = "all"]))

\* Clear All: shown when more than one filter is active.
ClearAll ==
    /\ Cardinality({field \in FilterFields : appFilters[field] # "all"}) > 1
    /\ SetFilters(handleFilterChange(AllFilters))

\* Try again: shown with the error, it calls loadSummaryData of the render.
TryAgain ==
    /\ error # Null
    /\ StartLoad(appFilters)
    /\ UNCHANGED appFilters

\* A request is answered, by the server or not at all, and the
\* loadSummaryData call that awaited it runs to its end.
ResponseArrives ==
    \E i \in 1..Len(inFlight) :
        \E response \in {SummaryResponse(inFlight[i]), Unavailable} :
            LET after == AfterResponse(response, [error |-> error, shown |-> shown])
            IN /\ error' = after.error
               /\ shown' = after.shown
               /\ loading' = FALSE
               /\ inFlight' = SubSeq(inFlight, 1, i - 1) \o SubSeq(inFlight, i + 1, Len(inFlight))
               /\ UNCHANGED <<appFilters, server>>

\* App mounted: the first render and its effect, which calls loadSummaryData.
InitMounted ==
    /\ appFilters = AllFilters
    /\ loading = TRUE
    /\ error = Null
    /\ shown = [mtdSummary |-> NoSummary, monthlySummary |-> <<>>]
    /\ inFlight = <<SummaryRequest(AllFilters)>>

InitApp == InitServer({DashboardStore}, {0}) /\ InitMounted
NextApp ==
    \/ SelectOption
    \/ RemoveChip
    \/ ClearAll
    \/ TryAgain
    \/ ResponseArrives
SpecApp == InitApp /\ [][NextApp]_vars

\* What the summary endpoint answers for the filters the dashboard shows.
SummaryFor(filters) ==
    LET body == SummaryResponse(SummaryRequest(filters)).body
    IN [mtdSummary |-> body.mtdSummary, monthlySummary |-> body.monthByMonth]

\* C25: whatever the filter changes and the order of the responses, once no
\* request is in flight (and the last one has not failed) the summaries
\* displayed are the response for the current filters.
C25_ShownIsForCurrentFilters ==
    (inFlight = <<>> /\ error = Null) => shown = SummaryFor(appFilters)

\* C26: loading is true whenever a summary request is in flight.
C26_LoadingWhileInFlight ==
    inFlight # <<>> => loading = TRUE

\* C27: filters.status = "Approved" implies filters.declineReasonCode =
\* "all", and no summary request carries status=Approved together with a
\* declineReasonCode.
C27_NoReasonWhenApproved ==
    /\ appFilters.status = "Approved" => appFilters.declineReasonCode = "all"
    /\ \A i \in 1..Len(inFlight) :
           inFlight[i].status = "Approved" => inFlight[i].declineReasonCode = Undefined

\* The status is Approved and the request for it is in flight.
C27_Witness ==
    /\ appFilters.status = "Approved"
    /\ appFilters.declineReasonCode = "all"
    /\ \E i \in 1..Len(inFlight) : inFlight[i].status = "Approved"

\* C28: the Decline Reason dropdown is disabled in every state where the
\* status filter is not "Declined".
C28_ReasonOnlyWhenDeclined ==
    appFilters.status # "Declined" =>
        SelectDisabled("declineReasonCode", appFilters, loading)

=============================================================================
